---- MODULE Spec2Model ----
(***************************************************************************)
(* Model of utils/nlpyutils.py: the safe analysis loop                     *)
(* (tokens_to_docs_safe), the token aligner and attribute resolver         *)
(* (nlpy_features, _get_ancestor, _get_label, _voidtoken) and the feature  *)
(* assembler (nlpy_sentence_features, _nlpy_word_features).                *)
(*                                                                         *)
(* Python strings are sequences of one-character strings ('' is <<>>),     *)
(* Python lists and tuples are sequences, dicts are functions from key     *)
(* strings.  Indices held in the state (idx, sent_idx, tk_idx, seek, the   *)
(* analyzer spans) are Python's 0-based indices.                           *)
(***************************************************************************)
EXTENDS Integers, Sequences, FiniteSets, TLC

VARIABLES
    raw,            \* tokens_to_docs_safe: the list of tokenized sentences
    eai,            \* the Expertai instance handed to every function
    idx,            \* tokens_to_docs_safe: loop index of enumerate(raw)
    docs,           \* tokens_to_docs_safe: documents appended so far
    errors,         \* tokens_to_docs_safe: indices appended so far
    failed,         \* history: the indices whose analyze call raised
    pc,             \* position of the run
    sentences,      \* nlpy_features: its first argument
    sent_idx,       \* nlpy_features: outer loop index
    tk_idx,         \* nlpy_features: inner loop index
    seek,           \* nlpy_features: the seek cursor
    eai_tokenlist,  \* nlpy_features: records of the current sentence
    eai_sents,      \* nlpy_features: finished sentences
    aligned,        \* history: per handled token, what the aligner saw
    lookups,        \* history: syncons passed to kgraph.linked_syncons
    exc,            \* the exception that ended the run ("" if none)
    sentence,       \* nlpy_sentence_features: its argument
    index,          \* nlpy_sentence_features: generator index
    features        \* nlpy_sentence_features: feature maps built so far

vars == <<raw, eai, idx, docs, errors, failed, pc, sentences, sent_idx, tk_idx,
          seek, eai_tokenlist, eai_sents, aligned, lookups, exc,
          sentence, index, features>>

(***************************************************************************)
(* Bounds of the model.                                                    *)
(***************************************************************************)
MaxSents == 2       \* sentences in a batch
MaxTokens == 2      \* raw tokens in a sentence of a batch
MaxRecords == 3     \* records in a sentence handed to the assembler

(***************************************************************************)
(* Python string and list primitives.                                      *)
(***************************************************************************)
Max(a, b) == IF a >= b THEN a ELSE b

Min(a, b) == IF a <= b THEN a ELSE b

\* s[k] for a Python index k that is in range (negative k counts from the end)
PyIndex(s, k) == IF k < 0 THEN s[Len(s) + k + 1] ELSE s[k + 1]

\* whether s[k] raises no IndexError
InRange(s, k) == -Len(s) <= k /\ k < Len(s)

\* s[-n:]
LastN(s, n) == SubSeq(s, Max(Len(s) - n, 0) + 1, Len(s))

\* s[:n]
FirstN(s, n) == SubSeq(s, 1, Min(n, Len(s)))

\* sep.join(list) for a one-character separator
RECURSIVE Join(_, _)
Join(sep, list) ==
    IF list = <<>> THEN <<>>
    ELSE IF Len(list) = 1 THEN list[1]
    ELSE list[1] \o <<sep>> \o Join(sep, Tail(list))

\* a find that forgets its start argument: s.find(sub)
Find_IgnoringStart(s, sub, start) ==
    LET hits == {i \in 0..(Len(s) - Len(sub)) : SubSeq(s, i + 1, i + Len(sub)) = sub}
    IN IF hits = {} THEN -1 ELSE CHOOSE i \in hits : \A j \in hits : i <= j

\* s.find(sub, start): lowest index >= start where sub occurs in s, else -1
Find(s, sub, start) ==
    LET from == IF start < 0 THEN Max(Len(s) + start, 0) ELSE start
        hits == {i \in from..(Len(s) - Len(sub)) :
                    SubSeq(s, i + 1, i + Len(sub)) = sub}
    IN IF hits = {} THEN -1 ELSE CHOOSE i \in hits : \A j \in hits : i <= j

\* s.split(sep) for a one-character separator: always at least one component
RECURSIVE Split(_, _)
Split(s, sep) ==
    LET cuts == {i \in 1..Len(s) : s[i] = sep}
    IN IF cuts = {} THEN <<s>>
       ELSE LET c == CHOOSE i \in cuts : \A j \in cuts : i <= j
            IN <<SubSeq(s, 1, c - 1)>> \o Split(SubSeq(s, c + 1, Len(s)), sep)

Contains(s, ch) == \E i \in 1..Len(s) : s[i] = ch

\* the elements of a finite set of integers in increasing order
RECURSIVE SortedSeq(_)
SortedSeq(S) ==
    IF S = {} THEN <<>>
    ELSE LET m == CHOOSE x \in S : \A y \in S : x <= y
         IN <<m>> \o SortedSeq(S \ {m})

\* all sequences over S of length at most n
SeqsUpTo(S, n) == UNION {[1..k -> S] : k \in 0..n}

(***************************************************************************)
(* The inputs.  Raw tokens are non-empty words without blanks, as an       *)
(* upstream tokenizer segments them.                                       *)
(***************************************************************************)
Words == {<<"a">>, <<"A", "b">>}

RawSentences == SeqsUpTo(Words, MaxTokens)

RawBatches == SeqsUpTo(RawSentences, MaxSents)

(***************************************************************************)
(* The Expertai instance.  Its analyzer is external: an instance fixes how *)
(* text is segmented (tokenizer), which attributes successive analyzer     *)
(* tokens carry (first_kind) and which knowledge annotations a document    *)
(* has.                                                                    *)
(* Whether one analyze call raises is decided per call.                    *)
(***************************************************************************)
Tokenizers == {"word", "none", "merged", "dup", "split"}

KnowledgeNames == {"absent", "entities", "mixed"}

\* the kinds follow each other in this cycle, from the instance's first kind
KindCycle == <<"noun", "verb", "adj", "punct">>

Instances ==
    [tokenizer : Tokenizers, first_kind : 1..Len(KindCycle), knowledge : KnowledgeNames]

\* the attributes of an analyzer token of one kind
KindAttrs(kind) ==
    CASE kind = "noun" ->
           [pos |-> <<"N", "O", "U">>, syncon |-> 12,
            dependency |-> [label |-> <<"n", "s", "u", "b", "j">>],
            typeclass |-> <<"N", "O", "U", ".", "P", "E", "R">>]
      [] kind = "verb" ->
           [pos |-> <<"V", "E", "R">>, syncon |-> 12,
            dependency |-> [label |-> <<"r", "o", "o", "t">>],
            typeclass |-> <<"V", "E", "R">>]
      [] kind = "adj" ->
           [pos |-> <<"A", "D", "J">>, syncon |-> 7,
            dependency |-> [label |-> <<"a", "m", "o", "d">>],
            typeclass |-> <<"A", "D", "J", ".", "x", ".", "y">>]
      [] OTHER ->
           [pos |-> <<"P", "N", "T">>, syncon |-> -1,
            dependency |-> [label |-> <<"p", "u", "n", "c", "t">>],
            typeclass |-> <<"P", "N", "T">>]

\* an analyzer Token: a span into the text and the attributes of its kind
Token(start, end, kind) ==
    LET a == KindAttrs(kind)
    IN [start |-> start, end |-> end, pos |-> a.pos, syncon |-> a.syncon,
        dependency |-> a.dependency, typeclass |-> a.typeclass]

\* the kind an instance gives its n-th token (n from 1)
KindAt(e, n) == KindCycle[((e.first_kind + n - 2) % Len(KindCycle)) + 1]

\* 0-based starts of the maximal blank-free runs of text, in order
WordStarts(text) ==
    SortedSeq({i \in 0..(Len(text) - 1) :
                 text[i + 1] # " " /\ (i = 0 \/ text[i] = " ")})

\* 0-based end (exclusive) of the blank-free run starting at start
WordEnd(text, start) ==
    CHOOSE j \in (start + 1)..Len(text) :
        /\ j = Len(text) \/ text[j + 1] = " "
        /\ \A k \in (start + 1)..j : text[k] # " "

\* 0-based positions of the non-blank characters of text, in order
CharStarts(text) == SortedSeq({i \in 0..(Len(text) - 1) : text[i + 1] # " "})

\* the Token list the instance's analyzer produces for text
AnalyzerTokens(e, text) ==
    LET ws == WordStarts(text)
        cs == CharStarts(text)
    IN CASE e.tokenizer = "word" ->
              [n \in 1..Len(ws) |-> Token(ws[n], WordEnd(text, ws[n]), KindAt(e, n))]
         [] e.tokenizer = "merged" ->
              IF text = <<>> THEN <<>> ELSE <<Token(0, Len(text), KindAt(e, 1))>>
         [] e.tokenizer = "dup" ->
              [n \in 1..(2 * Len(ws)) |->
                  Token(ws[(n + 1) \div 2], WordEnd(text, ws[(n + 1) \div 2]), KindAt(e, n))]
         [] e.tokenizer = "split" ->
              [n \in 1..Len(cs) |-> Token(cs[n], cs[n] + 1, KindAt(e, n))]
         [] OTHER -> <<>>

\* doc.knowledge: with or without the _k attribute
Knowledge(e) ==
    CASE e.knowledge = "entities" ->
           [has_k |-> TRUE,
            _k |-> <<[syncon |-> 12, label |-> <<"e", ".", "f", ".", "g">>],
                     [syncon |-> 12, label |-> <<"h">>]>>]
      [] e.knowledge = "mixed" ->
           [has_k |-> TRUE,
            _k |-> <<[syncon |-> -1, label |-> <<"z">>],
                     [syncon |-> 7, label |-> <<"q">>]>>]
      [] OTHER -> [has_k |-> FALSE, _k |-> <<>>]

\* the Document eai.analyze(text, {'features': [...]}) returns when it returns
Analyze(e, text) ==
    [content |-> text, tokens |-> AnalyzerTokens(e, text), knowledge |-> Knowledge(e)]

\* eai.kgraph.linked_syncons(params, 0, 1)
linked_syncons(e, params) ==
    IF params.syncon = 12
    THEN [max_records |-> 1, syncon_list |-> <<3>>]
    ELSE [max_records |-> 0, syncon_list |-> <<>>]

(***************************************************************************)
(* tokens_to_docs_safe(raw, eai)                                           *)
(***************************************************************************)
\* what one analyze call does: it raises, or it returns the Document
AnalyzeOutcomes(e, text) ==
    {[raised |-> TRUE], [raised |-> FALSE, doc |-> Analyze(e, text)]}

\* an iteration that records a failure under the 1-based position
SafeIteration_OneBased(ds, es, i, outcome) ==
    IF outcome.raised
    THEN [docs |-> ds, errors |-> Append(es, i + 1)]
    ELSE [docs |-> Append(ds, outcome.doc), errors |-> es]

\* the try/except of one loop iteration, on the lists built so far
SafeIteration(ds, es, i, outcome) ==
    IF outcome.raised
    THEN [docs |-> ds, errors |-> Append(es, i)]
    ELSE [docs |-> Append(ds, outcome.doc), errors |-> es]

tokens_to_docs_safe_iter ==
    /\ pc = "safe"
    /\ idx < Len(raw)
    /\ \E outcome \in AnalyzeOutcomes(eai, Join(" ", raw[idx + 1])) :
          LET r == SafeIteration(docs, errors, idx, outcome)
          IN /\ docs' = r.docs
             /\ errors' = r.errors
             /\ failed' = IF outcome.raised THEN failed \cup {idx} ELSE failed
    /\ idx' = idx + 1
    /\ UNCHANGED <<raw, eai, pc, sentences, sent_idx, tk_idx, seek, eai_tokenlist,
                   eai_sents, aligned, lookups, exc, sentence, index, features>>

\* the loop is over: print(len(errors), 'errors'); return docs, errors
tokens_to_docs_safe_return ==
    /\ pc = "safe"
    /\ idx = Len(raw)
    /\ pc' = "safe_returned"
    /\ UNCHANGED <<raw, eai, idx, docs, errors, failed, sentences, sent_idx, tk_idx,
                   seek, eai_tokenlist, eai_sents, aligned, lookups, exc,
                   sentence, index, features>>

(***************************************************************************)
(* _voidtoken, _get_ancestor, _get_label                                   *)
(***************************************************************************)
_voidtoken ==
    [word |-> <<>>, pos |-> <<>>, syncon |-> -1, ancestor |-> -1,
     dep |-> <<>>, label |-> <<>>]

\* the value returned, and the syncons it asked the knowledge graph about
_get_ancestor(syncon, e) ==
    IF syncon = -1 THEN [ret |-> -1, asked |-> {}]
    ELSE LET params == [syncon |-> syncon, link_name |-> "supernomen/subnomen",
                        direction |-> "from", level |-> 1]
             ancestor == linked_syncons(e, params)
         IN IF ancestor.max_records = 0
            THEN [ret |-> -1, asked |-> {syncon}]
            ELSE [ret |-> ancestor.syncon_list[1], asked |-> {syncon}]

_get_label(doc, syncon) ==
    IF ~doc.knowledge.has_k THEN <<>>
    ELSE LET k == doc.knowledge._k
             hits == {i \in 1..Len(k) : k[i].syncon = syncon}
             label == IF hits = {} THEN <<>>
                      ELSE k[CHOOSE i \in hits : \A j \in hits : i <= j].label
         IN IF label # <<>> /\ Contains(label, ".")
            THEN LET parts == Split(label, ".") IN parts[Len(parts)]
            ELSE label

(***************************************************************************)
(* nlpy_features(sentences, docs, eai)                                     *)
(***************************************************************************)
\* the test of lines 130-132 on one analyzer Token
Overlaps(t, index_start, index_end) ==
    \/ (t.start <= index_start /\ t.end >= index_end)
    \/ (t.start >= index_start /\ t.start <= index_end)
    \/ (t.end >= index_start /\ t.end <= index_end)

\* the analyzer Tokens appended to possible_tokens, in the analyzer's order
PossibleTokens(doc, index_start, index_end) ==
    SelectSeq(doc.tokens, LAMBDA t : Overlaps(t, index_start, index_end))

\* list.sort(key = lambda t: t.syncon, reverse=True): stable, largest first
RECURSIVE SortBySyncon(_)
SortBySyncon(ts) ==
    IF ts = <<>> THEN <<>>
    ELSE LET n == Len(ts)
             init == SortBySyncon(SubSeq(ts, 1, n - 1))
             t == ts[n]
             ahead == {i \in 1..Len(init) : init[i].syncon >= t.syncon}
             at == IF ahead = {} THEN 0
                   ELSE CHOOSE i \in ahead : \A j \in ahead : j <= i
         IN SubSeq(init, 1, at) \o <<t>> \o SubSeq(init, at + 1, Len(init))

\* the first candidate, the sort left out
Chosen_Unsorted(possible_tokens) == possible_tokens[1]

\* possible_tokens[0] after the sort of lines 140-141
Chosen(possible_tokens) ==
    IF Len(possible_tokens) > 1 THEN SortBySyncon(possible_tokens)[1]
    ELSE possible_tokens[1]

\* the dict of lines 142-150
NewToken(token, t, doc, e) ==
    [word |-> token, pos |-> t.pos, syncon |-> t.syncon,
     ancestor |-> _get_ancestor(t.syncon, e).ret,
     label |-> _get_label(doc, t.syncon),
     dep |-> t.dependency.label,
     typeclass |-> Split(t.typeclass, ".")]

\* lines 152-154 from cursor k: the cursor after the blanks, or IndexError
RECURSIVE SkipBlanks(_, _)
SkipBlanks(content, k) ==
    IF ~InRange(content, k) THEN [raised |-> TRUE, seek |-> k]
    ELSE IF PyIndex(content, k) = " " THEN SkipBlanks(content, k + 1)
    ELSE [raised |-> FALSE, seek |-> k]

\* one iteration of the loop over the tokens of sentences[sent_idx]
nlpy_features_token ==
    /\ pc = "features"
    /\ sent_idx < Len(sentences)
    /\ tk_idx < Len(sentences[sent_idx + 1])
    /\ LET doc == docs[sent_idx + 1]
           token == sentences[sent_idx + 1][tk_idx + 1]
           index_start == Find(doc.content, token, seek)
           index_end == index_start + Len(token)
           possible_tokens == PossibleTokens(doc, index_start, index_end)
           rec == IF possible_tokens = <<>> THEN _voidtoken
                  ELSE NewToken(token, Chosen(possible_tokens), doc, eai)
           asked == IF possible_tokens = <<>> THEN {}
                    ELSE _get_ancestor(Chosen(possible_tokens).syncon, eai).asked
           skip == SkipBlanks(doc.content, index_end)
       IN /\ eai_tokenlist' = Append(eai_tokenlist, rec)
          /\ lookups' = lookups \cup asked
          /\ aligned' = Append(aligned,
                 [sent |-> sent_idx, tk |-> tk_idx, index_start |-> index_start,
                  index_end |-> index_end, possible |-> possible_tokens])
          /\ seek' = skip.seek
          /\ IF skip.raised
             THEN pc' = "raised" /\ exc' = "IndexError" /\ tk_idx' = tk_idx
             ELSE pc' = pc /\ exc' = exc /\ tk_idx' = tk_idx + 1
    /\ UNCHANGED <<raw, eai, idx, docs, errors, failed, sentences, sent_idx,
                   eai_sents, sentence, index, features>>

\* the tokens of the sentence are done: eai_sents.append(eai_tokenlist)
nlpy_features_sentence ==
    /\ pc = "features"
    /\ sent_idx < Len(sentences)
    /\ tk_idx = Len(sentences[sent_idx + 1])
    /\ eai_sents' = Append(eai_sents, eai_tokenlist)
    /\ sent_idx' = sent_idx + 1
    /\ tk_idx' = 0
    /\ seek' = 0
    /\ eai_tokenlist' = <<>>
    /\ UNCHANGED <<raw, eai, idx, docs, errors, failed, pc, sentences, aligned,
                   lookups, exc, sentence, index, features>>

\* return eai_sents
nlpy_features_return ==
    /\ pc = "features"
    /\ sent_idx = Len(sentences)
    /\ pc' = "returned"
    /\ UNCHANGED <<raw, eai, idx, docs, errors, failed, sentences, sent_idx, tk_idx,
                   seek, eai_tokenlist, eai_sents, aligned, lookups, exc,
                   sentence, index, features>>

(***************************************************************************)
(* str.lower, str.isupper, str.istitle, str.isdigit                        *)
(***************************************************************************)
UpperCase ==
    <<"A", "B", "C", "D", "E", "F", "G", "H", "I", "J", "K", "L", "M",
      "N", "O", "P", "Q", "R", "S", "T", "U", "V", "W", "X", "Y", "Z">>

LowerCase ==
    <<"a", "b", "c", "d", "e", "f", "g", "h", "i", "j", "k", "l", "m",
      "n", "o", "p", "q", "r", "s", "t", "u", "v", "w", "x", "y", "z">>

Digits == {"0", "1", "2", "3", "4", "5", "6", "7", "8", "9"}

IsUpperChar(c) == \E i \in 1..Len(UpperCase) : UpperCase[i] = c

IsLowerChar(c) == \E i \in 1..Len(LowerCase) : LowerCase[i] = c

LowerChar(c) ==
    IF IsUpperChar(c)
    THEN LowerCase[CHOOSE i \in 1..Len(UpperCase) : UpperCase[i] = c]
    ELSE c

Lower(s) == [i \in 1..Len(s) |-> LowerChar(s[i])]

IsUpper(s) ==
    /\ \E i \in 1..Len(s) : IsUpperChar(s[i])
    /\ \A i \in 1..Len(s) : ~IsLowerChar(s[i])

\* uppercase only after uncased characters, lowercase only after cased ones
IsTitle(s) ==
    /\ \E i \in 1..Len(s) : IsUpperChar(s[i]) \/ IsLowerChar(s[i])
    /\ \A i \in 1..Len(s) :
          LET after_cased == i > 1 /\ (IsUpperChar(s[i - 1]) \/ IsLowerChar(s[i - 1]))
          IN /\ IsUpperChar(s[i]) => ~after_cased
             /\ IsLowerChar(s[i]) => after_cased

IsDigit(s) == s # <<>> /\ \A i \in 1..Len(s) : s[i] \in Digits

\* a Python float, kept exact as a fraction
Float(num, den) == [num |-> num, den |-> den]

(***************************************************************************)
(* _nlpy_word_features(sentence, idx), nlpy_sentence_features(sentence)    *)
(***************************************************************************)
\* the keys a dict lookup token[k] needs: a missing one raises KeyError
HasKeys(token, keys) == keys \subseteq DOMAIN token

\* line 180: idx > 0
HasPrev(sent, i) == i > 0

\* the bound of line 198 off by one: idx < len(sentence)
HasNext_OffByOne(sent, i) == i < Len(sent)

\* line 198: idx < len(sentence)-1
HasNext(sent, i) == i < Len(sent) - 1

\* line 181: the record the '-1:' features are read from
PrevToken(sent, i) == PyIndex(sent, i - 1)

\* line 199: the record the '+1:' features are read from
NextToken(sent, i) == PyIndex(sent, i - 1)

\* the dict of lines 163-179
OwnFeatures(token) ==
    [k \in {"bias", "word.lower()", "word[-3:]", "word[-2:]", "word.isupper()",
            "word.istitle()", "word.isdigit()", "nlpy.postag", "nlpy.postag[:2]",
            "nlpy.deptag", "nlpy.deptag[-2:]", "nlpy.syncon", "nlpy.ancestor",
            "nlpy.labels", "nlpy.typeclass"} |->
        CASE k = "bias" -> Float(1, 1)
          [] k = "word.lower()" -> Lower(token.word)
          [] k = "word[-3:]" -> LastN(token.word, 3)
          [] k = "word[-2:]" -> LastN(token.word, 2)
          [] k = "word.isupper()" -> IsUpper(token.word)
          [] k = "word.istitle()" -> IsTitle(token.word)
          [] k = "word.isdigit()" -> IsDigit(token.word)
          [] k = "nlpy.postag" -> token.pos
          [] k = "nlpy.postag[:2]" -> FirstN(token.pos, 2)
          [] k = "nlpy.deptag" -> token.dep
          [] k = "nlpy.deptag[-2:]" -> LastN(token.dep, 2)
          [] k = "nlpy.syncon" ->
               IF token.syncon = -1 THEN Float(-1, 1) ELSE Float(token.syncon, 10000)
          [] k = "nlpy.ancestor" ->
               IF token.ancestor = -1 THEN Float(-1, 1) ELSE Float(token.ancestor, 10000)
          [] k = "nlpy.labels" -> token.label
          [] OTHER -> token.typeclass]

\* the dicts of lines 182-194 and 200-212, under the prefix '-1:' or '+1:'
NeighbourFeatures(prefix, token1) ==
    ((prefix \o "word.lower()") :> Lower(token1.word))
    @@ ((prefix \o "word.istitle()") :> IsTitle(token1.word))
    @@ ((prefix \o "word.isupper()") :> IsUpper(token1.word))
    @@ ((prefix \o "nlpy.postag") :> token1.pos)
    @@ ((prefix \o "nlpy.deptag") :> token1.dep)
    @@ ((prefix \o "nlpy.labels") :> token1.label)
    @@ ((prefix \o "nlpy.typeclass") :> token1.typeclass)

OwnKeys == {"word", "pos", "dep", "syncon", "ancestor", "label", "typeclass"}

NeighbourKeys == {"word", "pos", "dep", "label", "typeclass"}

\* the feature dict, or the KeyError of the first lookup of a missing key
_nlpy_word_features(sent, i) ==
    LET token == PyIndex(sent, i)
    IN IF ~HasKeys(token, OwnKeys) THEN [raised |-> TRUE]
       ELSE IF HasPrev(sent, i) /\ ~HasKeys(PrevToken(sent, i), NeighbourKeys)
       THEN [raised |-> TRUE]
       ELSE IF HasNext(sent, i) /\ ~HasKeys(NextToken(sent, i), NeighbourKeys)
       THEN [raised |-> TRUE]
       ELSE [raised |-> FALSE,
             features |->
                 (IF HasNext(sent, i) THEN NeighbourFeatures("+1:", NextToken(sent, i))
                  ELSE "EOS" :> TRUE)
                 @@ (IF HasPrev(sent, i) THEN NeighbourFeatures("-1:", PrevToken(sent, i))
                     ELSE "BOS" :> TRUE)
                 @@ OwnFeatures(token)]

\* tuple(... for index in range(len(sentence))): one item of the generator
nlpy_sentence_features_item ==
    /\ pc = "assemble"
    /\ index < Len(sentence)
    /\ LET r == _nlpy_word_features(sentence, index)
       IN IF r.raised
          THEN /\ pc' = "raised"
               /\ exc' = "KeyError"
               /\ UNCHANGED <<index, features>>
          ELSE /\ features' = Append(features, r.features)
               /\ index' = index + 1
               /\ UNCHANGED <<pc, exc>>
    /\ UNCHANGED <<raw, eai, idx, docs, errors, failed, sentences, sent_idx, tk_idx,
                   seek, eai_tokenlist, eai_sents, aligned, lookups, sentence>>

\* the generator is exhausted: the tuple is returned
nlpy_sentence_features_return ==
    /\ pc = "assemble"
    /\ index = Len(sentence)
    /\ pc' = "returned"
    /\ UNCHANGED <<raw, eai, idx, docs, errors, failed, sentences, sent_idx, tk_idx,
                   seek, eai_tokenlist, eai_sents, aligned, lookups, exc,
                   sentence, index, features>>

\* the whole call, as a function of its argument
RECURSIVE AssembleFrom(_, _)
AssembleFrom(sent, i) ==
    IF i = Len(sent) THEN [raised |-> FALSE, features |-> <<>>]
    ELSE LET r == _nlpy_word_features(sent, i)
             rest == AssembleFrom(sent, i + 1)
         IN IF r.raised \/ rest.raised THEN [raised |-> TRUE]
            ELSE [raised |-> FALSE, features |-> <<r.features>> \o rest.features]

nlpy_sentence_features(sent) == AssembleFrom(sent, 0)

(***************************************************************************)
(* tokens_to_docs_safe alone, on a batch and an Expertai instance.  The    *)
(* loop never looks into a Document, so the instances here differ in       *)
(* tokenizer and knowledge only.                                           *)
(***************************************************************************)
SafeInstances == {e \in Instances : e.first_kind = 1}

InitSafe ==
    /\ raw \in RawBatches
    /\ eai \in SafeInstances
    /\ idx = 0
    /\ docs = <<>>
    /\ errors = <<>>
    /\ failed = {}
    /\ pc = "safe"
    /\ sentences = <<>>
    /\ sent_idx = 0
    /\ tk_idx = 0
    /\ seek = 0
    /\ eai_tokenlist = <<>>
    /\ eai_sents = <<>>
    /\ aligned = <<>>
    /\ lookups = {}
    /\ exc = ""
    /\ sentence = <<>>
    /\ index = 0
    /\ features = <<>>

NextSafe ==
    \/ tokens_to_docs_safe_iter
    \/ tokens_to_docs_safe_return

SpecSafe == InitSafe /\ [][NextSafe]_vars

(***************************************************************************)
(* nlpy_features alone, on a batch of sentences, the Documents the         *)
(* instance's analyzer returned for them, and the instance.                *)
(***************************************************************************)
InitFeatures ==
    /\ sentences \in RawBatches
    /\ eai \in Instances
    /\ docs = [s \in 1..Len(sentences) |-> Analyze(eai, Join(" ", sentences[s]))]
    /\ pc = "features"
    /\ sent_idx = 0
    /\ tk_idx = 0
    /\ seek = 0
    /\ eai_tokenlist = <<>>
    /\ eai_sents = <<>>
    /\ aligned = <<>>
    /\ lookups = {}
    /\ exc = ""
    /\ raw = <<>>
    /\ idx = 0
    /\ errors = <<>>
    /\ failed = {}
    /\ sentence = <<>>
    /\ index = 0
    /\ features = <<>>

NextFeatures ==
    \/ nlpy_features_token
    \/ nlpy_features_sentence
    \/ nlpy_features_return

SpecFeatures == InitFeatures /\ [][NextFeatures]_vars

(***************************************************************************)
(* The assembler alone: nlpy_sentence_features on a list of the records    *)
(* the aligner builds (lines 142-150) and of sentinels (_voidtoken).       *)
(***************************************************************************)
AsmInstance ==
    [tokenizer |-> "word", first_kind |-> 1, knowledge |-> "entities"]

AlignedRecords ==
    {_voidtoken} \cup
    {NewToken(w, Token(0, Len(w), k), Analyze(AsmInstance, w), AsmInstance) :
        w \in Words, k \in {"noun", "punct"}}

InitAsm ==
    /\ sentence \in SeqsUpTo(AlignedRecords, MaxRecords)
    /\ eai = AsmInstance
    /\ pc = "assemble"
    /\ index = 0
    /\ features = <<>>
    /\ exc = ""
    /\ raw = <<>>
    /\ idx = 0
    /\ docs = <<>>
    /\ errors = <<>>
    /\ failed = {}
    /\ sentences = <<>>
    /\ sent_idx = 0
    /\ tk_idx = 0
    /\ seek = 0
    /\ eai_tokenlist = <<>>
    /\ eai_sents = <<>>
    /\ aligned = <<>>
    /\ lookups = {}

NextAsm ==
    \/ nlpy_sentence_features_item
    \/ nlpy_sentence_features_return

SpecAsm == InitAsm /\ [][NextAsm]_vars

(***************************************************************************)
(* Notions the properties are stated with.                                 *)
(***************************************************************************)
\* 0-based offset of token t (0-based) of sent in ' '.join(sent)
RECURSIVE TrueStart(_, _)
TrueStart(sent, t) ==
    IF t = 0 THEN 0 ELSE TrueStart(sent, t - 1) + Len(sent[t]) + 1

\* the record nlpy_features built for token tk of sentence s (both 0-based)
RecordAt(s, tk) ==
    IF s < Len(eai_sents) THEN eai_sents[s + 1][tk + 1] ELSE eai_tokenlist[tk + 1]

\* every document is the analysis of the sentence joined by single blanks
DocsMatchSentences ==
    /\ Len(docs) = Len(sentences)
    /\ \A s \in 1..Len(sentences) : docs[s].content = Join(" ", sentences[s])

FeaturesEnded == pc \in {"returned", "raised"}

PrevFeatureKeys ==
    {"-1:word.lower()", "-1:word.istitle()", "-1:word.isupper()", "-1:nlpy.postag",
     "-1:nlpy.deptag", "-1:nlpy.labels", "-1:nlpy.typeclass"}

NextFeatureKeys ==
    {"+1:word.lower()", "+1:word.istitle()", "+1:word.isupper()", "+1:nlpy.postag",
     "+1:nlpy.deptag", "+1:nlpy.labels", "+1:nlpy.typeclass"}

(***************************************************************************)
(* C1: once nlpy_features has ended on sentences with their documents, it  *)
(* has returned one record list per sentence with exactly one record per   *)
(* raw token, and nlpy_sentence_features returns exactly one feature map   *)
(* per record.                                                             *)
(* Under SpecFeatures.                                                     *)
(***************************************************************************)
C1_OneRecordAndMapPerToken ==
    (FeaturesEnded /\ DocsMatchSentences) =>
        /\ pc = "returned"
        /\ Len(eai_sents) = Len(sentences)
        /\ \A s \in 1..Len(sentences) :
              /\ Len(eai_sents[s]) = Len(sentences[s])
              /\ ~nlpy_sentence_features(eai_sents[s]).raised
              /\ Len(nlpy_sentence_features(eai_sents[s]).features) = Len(eai_sents[s])

(***************************************************************************)
(* C2: at every point of tokens_to_docs_safe, and so when it returns, the  *)
(* failure indices are exactly the indices whose analyze call raised, in   *)
(* increasing order, the documents are the analyses of exactly the other   *)
(* sentences handled so far, in their original order, and no exception     *)
(* has left the call.                                                      *)
(* Under SpecSafe.                                                         *)
(***************************************************************************)
C2_SafeModeIsolatesFailures ==
    LET good == SortedSeq({i \in 0..(idx - 1) : i \notin failed})
    IN /\ errors = SortedSeq(failed)
       /\ failed \subseteq 0..(idx - 1)
       /\ Len(docs) = Len(good)
       /\ \A n \in 1..Len(good) : docs[n] = Analyze(eai, Join(" ", raw[good[n] + 1]))
       /\ pc \in {"safe", "safe_returned"} => exc = ""
       /\ pc # "safe" => idx = Len(raw)

\* safe mode has returned with a failure at index 0 and the document of sentence 1
C2_Witness ==
    /\ pc = "safe_returned"
    /\ failed = {0}
    /\ Len(raw) = 2
    /\ Len(docs) = 1
    /\ raw[1] # raw[2]

(***************************************************************************)
(* C3: when the analyzer's spans coincide one-to-one with the raw tokens   *)
(* of the joined text, every raw token handled so far had exactly one      *)
(* candidate, the analyzer token of the same index, and its record carries *)
(* the raw word and that analyzer token's attributes.                      *)
(* Under SpecFeatures.                                                     *)
(***************************************************************************)
SpansCoincide(sent, doc) ==
    /\ doc.content = Join(" ", sent)
    /\ Len(doc.tokens) = Len(sent)
    /\ \A i \in 1..Len(sent) :
          /\ doc.tokens[i].start = TrueStart(sent, i - 1)
          /\ doc.tokens[i].end = TrueStart(sent, i - 1) + Len(sent[i])

C3_OneToOneAlignment ==
    \A n \in 1..Len(aligned) :
        LET a == aligned[n]
            sent == sentences[a.sent + 1]
            doc == docs[a.sent + 1]
            t == doc.tokens[a.tk + 1]
            rec == RecordAt(a.sent, a.tk)
        IN SpansCoincide(sent, doc) =>
              /\ a.possible = <<t>>
              /\ rec.word = sent[a.tk + 1]
              /\ rec.pos = t.pos
              /\ rec.syncon = t.syncon
              /\ rec.dep = t.dependency.label
              /\ rec.typeclass = Split(t.typeclass, ".")
              /\ rec.ancestor = _get_ancestor(t.syncon, eai).ret
              /\ rec.label = _get_label(doc, t.syncon)

\* two different raw tokens of one sentence aligned to two analyzer tokens that differ
C3_Witness ==
    /\ Len(aligned) = 2
    /\ aligned[2].sent = aligned[1].sent
    /\ SpansCoincide(sentences[aligned[2].sent + 1], docs[aligned[2].sent + 1])
    /\ sentences[aligned[2].sent + 1][1] # sentences[aligned[2].sent + 1][2]
    /\ eai_tokenlist[1].pos # eai_tokenlist[2].pos

(***************************************************************************)
(* C4: whenever two or more analyzer tokens overlap a raw token's span,    *)
(* its record is taken from the candidate that comes first in the          *)
(* analyzer's order among those with the largest syncon id.                *)
(* Under SpecFeatures.                                                     *)
(***************************************************************************)
C4_LargestSynconFirstEncountered ==
    \A n \in 1..Len(aligned) :
        LET a == aligned[n]
            sent == sentences[a.sent + 1]
            doc == docs[a.sent + 1]
            from == TrueStart(sent, a.tk)
            to == from + Len(sent[a.tk + 1])
            over == {i \in 1..Len(doc.tokens) : Overlaps(doc.tokens[i], from, to)}
            top == {i \in over : \A j \in over : doc.tokens[j].syncon <= doc.tokens[i].syncon}
            rec == RecordAt(a.sent, a.tk)
        IN Cardinality(over) >= 2 =>
              LET t == doc.tokens[CHOOSE i \in top : \A j \in top : i <= j]
              IN /\ Len(a.possible) = Cardinality(over)
                 /\ rec.pos = t.pos
                 /\ rec.syncon = t.syncon
                 /\ rec.dep = t.dependency.label
                 /\ rec.typeclass = Split(t.typeclass, ".")
                 /\ rec.ancestor = _get_ancestor(t.syncon, eai).ret
                 /\ rec.label = _get_label(doc, t.syncon)

\* a raw token with two candidates, the second of which has the larger syncon id
C4_Witness ==
    \E n \in 1..Len(aligned) :
        /\ Len(aligned[n].possible) = 2
        /\ aligned[n].possible[1].syncon < aligned[n].possible[2].syncon
        /\ RecordAt(aligned[n].sent, aligned[n].tk).syncon = aligned[n].possible[2].syncon

(***************************************************************************)
(* C5: a raw token without any overlapping analyzer token gets the         *)
(* sentinel record, and the run is not aborted: once nlpy_features has     *)
(* ended, every raw token of every sentence has its record.                *)
(* Under SpecFeatures.                                                     *)
(***************************************************************************)
C5_SentinelDoesNotAbort ==
    /\ \A n \in 1..Len(aligned) :
          aligned[n].possible = <<>> =>
              RecordAt(aligned[n].sent, aligned[n].tk) = _voidtoken
    /\ (FeaturesEnded /\ \E n \in 1..Len(aligned) : aligned[n].possible = <<>>) =>
          /\ pc = "returned"
          /\ Len(eai_sents) = Len(sentences)
          /\ \A s \in 1..Len(sentences) : Len(eai_sents[s]) = Len(sentences[s])

(***************************************************************************)
(* C6: no exception leaves nlpy_sentence_features on a list of the records *)
(* alignment produces, sentinel records included.  Under SpecAsm.          *)
(***************************************************************************)
C6_AssemblyIsTotal ==
    /\ ~(pc = "raised" /\ exc = "KeyError")
    /\ pc = "returned" => Len(features) = Len(sentence)

(***************************************************************************)
(* C7: in every feature map built for a token that has a next token, each  *)
(* '+1:' feature is computed from the record one position to the right.    *)
(* Under SpecAsm.                                                          *)
(***************************************************************************)
C7_RightNeighbourFeatures ==
    \A i \in 1..Len(features) :
        i < Len(sentence) =>
            /\ features[i]["+1:word.lower()"] = Lower(sentence[i + 1].word)
            /\ features[i]["+1:word.istitle()"] = IsTitle(sentence[i + 1].word)
            /\ features[i]["+1:word.isupper()"] = IsUpper(sentence[i + 1].word)
            /\ features[i]["+1:nlpy.postag"] = sentence[i + 1].pos
            /\ features[i]["+1:nlpy.deptag"] = sentence[i + 1].dep
            /\ features[i]["+1:nlpy.labels"] = sentence[i + 1].label
            /\ features[i]["+1:nlpy.typeclass"] = sentence[i + 1].typeclass

(***************************************************************************)
(* C8: in the feature maps built for a sentence, the first token's map has *)
(* BOS = true and no '-1:' key, the last token's map has EOS = true and no *)
(* '+1:' key, and every other map has neither marker and has the '-1:'     *)
(* and the '+1:' keys.  Under SpecAsm.                                     *)
(***************************************************************************)
C8_BoundaryMarkers ==
    \A i \in 1..Len(features) :
        LET keys == DOMAIN features[i]
        IN /\ IF i = 1
              THEN "BOS" \in keys /\ features[i]["BOS"] = TRUE
                   /\ keys \cap PrevFeatureKeys = {}
              ELSE "BOS" \notin keys /\ PrevFeatureKeys \subseteq keys
           /\ IF i = Len(sentence)
              THEN "EOS" \in keys /\ features[i]["EOS"] = TRUE
                   /\ keys \cap NextFeatureKeys = {}
              ELSE "EOS" \notin keys /\ NextFeatureKeys \subseteq keys

\* the maps of a three-token sentence have been returned: one is interior
C8_Witness ==
    /\ pc = "returned"
    /\ Len(sentence) = 3
    /\ Len(features) = 3
    /\ "BOS" \notin DOMAIN features[2]
    /\ "EOS" \notin DOMAIN features[2]

(***************************************************************************)
(* C9: syncon -1 means absent: linked_syncons is never asked about -1,     *)
(* and every record whose syncon is -1 has ancestor -1 and the empty       *)
(* label, whatever the document's knowledge annotations.                   *)
(* Under SpecFeatures.                                                     *)
(***************************************************************************)
C9_AbsentSynconShortCircuits ==
    /\ -1 \notin lookups
    /\ _get_ancestor(-1, eai) = [ret |-> -1, asked |-> {}]
    /\ \A n \in 1..Len(aligned) :
          LET rec == RecordAt(aligned[n].sent, aligned[n].tk)
          IN rec.syncon = -1 => (rec.ancestor = -1 /\ rec.label = <<>>)

(***************************************************************************)
(* C10: the skip over blanks after a token never reads the text at an      *)
(* index past its end: when the last raw token ends at the end of the      *)
(* text it stops there without raising.                                    *)
(* Under SpecFeatures.                                                     *)
(***************************************************************************)
C10_SkipStopsAtEndOfText ==
    \A n \in 1..Len(aligned) :
        aligned[n].index_end = Len(docs[aligned[n].sent + 1].content) =>
            ~(pc = "raised" /\ exc = "IndexError")

====
